---- MODULE Spec2Model ----
(***************************************************************************)
(* A model of afltriage's AddressSanitizer report post-processing          *)
(* (src/src/report/sanitizer.rs, asan_post_process).                       *)
(*                                                                         *)
(* Text is a sequence of one-character strings.  Offsets are the byte      *)
(* offsets of the Rust code (0-based): the character at offset i of s is   *)
(* s[i + 1], and the slice &s[a..b] is SubSeq(s, a + 1, b).                *)
(***************************************************************************)
EXTENDS Integers, Sequences, FiniteSets, TLC

VARIABLES
    input,      \* the text passed to asan_post_process
    nl,         \* the line-ending convention the text is written in
    nlines,     \* the number of lines of the text
    pc,         \* "collect", "collected" (the last line is cut), "done"
    result,     \* the outcome of the call
    pos,        \* the offsets the call computed
    lines_impl  \* what the build's str::lines did with a final bare "\r"

vars == <<input, nl, nlines, pc, result, pos, lines_impl>>

(***************************************************************************)
(* Bounds of the model.                                                    *)
(***************************************************************************)
MaxLines == 4

(***************************************************************************)
(* Character classes of the two regular expressions and of trim_end.       *)
(***************************************************************************)
LF == "\n"
CR == "\r"

EqChars == {"="}

DigitChars == {"0", "1", "2", "3", "4", "5", "6", "7", "8", "9"}

LowerChars ==
    {"a", "b", "c", "d", "e", "f", "g", "h", "i", "j", "k", "l", "m",
     "n", "o", "p", "q", "r", "s", "t", "u", "v", "w", "x", "y", "z"}

UpperChars ==
    {"A", "B", "C", "D", "E", "F", "G", "H", "I", "J", "K", "L", "M",
     "N", "O", "P", "Q", "R", "S", "T", "U", "V", "W", "X", "Y", "Z"}

\* [\r\n]
NewlineChars == {CR, LF}

\* [-_A-Za-z0-9]
WordChars == LowerChars \cup UpperChars \cup DigitChars \cup {"-", "_"}

\* [a-fA-F0-9]
HexChars == DigitChars \cup {"a", "b", "c", "d", "e", "f", "A", "B", "C", "D", "E", "F"}

\* \s of the regex crate and char::is_whitespace of trim_end, on ASCII text
SpaceChars == {" ", "\t", LF, CR, "\f"}

(***************************************************************************)
(* The literals of the patterns.                                           *)
(***************************************************************************)
LitError == <<"E", "R", "R", "O", "R", ":">>

LitAddressSanitizer ==
    <<"A", "d", "d", "r", "e", "s", "s", "S", "a", "n", "i", "t", "i", "z", "e", "r", ":">>

LitAttempting == <<"a", "t", "t", "e", "m", "p", "t", "i", "n", "g">>

LitSummary == <<"S", "U", "M", "M", "A", "R", "Y", ":", " ">>

LitSegv == <<"S", "E", "G", "V">>

LitFrame0 == <<"#", "0">>

LitHexPrefix == <<"0", "x">>

(***************************************************************************)
(* Matching primitives.                                                    *)
(***************************************************************************)
\* the offset where the longest run of characters of class cls that starts
\* at offset i ends (a greedy cls* ; the run is empty when the result is i)
RECURSIVE RunEnd(_, _, _)
RunEnd(s, i, cls) ==
    IF i < Len(s) /\ s[i + 1] \in cls THEN RunEnd(s, i + 1, cls) ELSE i

\* the same for the complement of cls (a greedy [^...]*)
RECURSIVE RunEndNot(_, _, _)
RunEndNot(s, i, cls) ==
    IF i < Len(s) /\ s[i + 1] \notin cls THEN RunEndNot(s, i + 1, cls) ELSE i

\* the literal lit occurs in s at offset i
LitAt(s, i, lit) ==
    /\ i + Len(lit) <= Len(s)
    /\ \A k \in 1..Len(lit) : s[i + k] = lit[k]

\* the least element of a non-empty set of offsets
MinOf(S) == CHOOSE x \in S : \A y \in S : x <= y

\* the least offset of the set S, or -1 when S is empty
FirstOf(S) == IF S = {} THEN -1 ELSE MinOf(S)

\* str::find on the slice &s[from..to]: the offset in s of the first
\* occurrence of pat that lies inside the slice, or -1
FindIn(s, from, to, pat) ==
    FirstOf({i \in from..(to - Len(pat)) : LitAt(s, i, pat)})

NoMatch == [matched |-> FALSE]

(***************************************************************************)
(* R_ASAN_HEADLINE.  The regex crate returns the leftmost-first match: at  *)
(* a start offset the alternatives are tried in preference order (a group  *)
(* followed by ? present before absent, repetitions greedy).  Each         *)
(* repetition of the pattern is followed by an item that cannot match a    *)
(* character of the repeated class, so giving back characters never turns  *)
(* a failure into a match and the greedy run is the only candidate; the    *)
(* two optional groups are tried present, then absent.                     *)
(***************************************************************************)
\* (?P<reason>[-_A-Za-z0-9]+)[^\r\n]*[\r\n]+(?P<operation>[-_A-Za-z0-9]+)?
\* with the reason starting at offset r
HeadlineTail(s, r) ==
    LET reasonEnd == RunEnd(s, r, WordChars)
        lineEnd   == RunEndNot(s, reasonEnd, NewlineChars)
        nlEnd     == RunEnd(s, lineEnd, NewlineChars)
        opEnd     == RunEnd(s, nlEnd, WordChars)
    IN  IF reasonEnd > r /\ nlEnd > lineEnd
        THEN [matched |-> TRUE, reason_start |-> r, reason_end |-> reasonEnd,
              has_op |-> opEnd > nlEnd, op_start |-> nlEnd, op_end |-> opEnd,
              end |-> opEnd]
        ELSE NoMatch

\* the first of two alternatives that matches
FirstMatched(a, b) == IF a.matched THEN a ELSE b

\* (attempting\s)? followed by the tail, at offset a
HeadlineReason(s, a) ==
    FirstMatched(IF /\ LitAt(s, a, LitAttempting)
                    /\ a + Len(LitAttempting) < Len(s)
                    /\ s[a + Len(LitAttempting) + 1] \in SpaceChars
                 THEN HeadlineTail(s, a + Len(LitAttempting) + 1)
                 ELSE NoMatch,
                 HeadlineTail(s, a))

\* the captures of a match: its start, the pid's span and the captures t of
\* the reason and the operation
HeadlineCaptures(t, start, p, pidEnd) ==
    IF t.matched
    THEN [matched |-> TRUE, start |-> start,
          pid_start |-> p, pid_end |-> pidEnd,
          reason_start |-> t.reason_start, reason_end |-> t.reason_end,
          has_op |-> t.has_op, op_start |-> t.op_start, op_end |-> t.op_end,
          end |-> t.end]
    ELSE NoMatch

\* (?P<pid>=+[0-9]+=+)\s*ERROR:\s*AddressSanitizer:\s* and the rest, with the
\* pid starting at offset p and the whole match at offset start
HeadlineFromPid(s, start, p) ==
    LET e1 == RunEnd(s, p, EqChars)
        e2 == RunEnd(s, e1, DigitChars)
        e3 == RunEnd(s, e2, EqChars)
        w1 == RunEnd(s, e3, SpaceChars)
        w2 == RunEnd(s, w1 + Len(LitError), SpaceChars)
        w3 == RunEnd(s, w2 + Len(LitAddressSanitizer), SpaceChars)
    IN  IF /\ e1 > p /\ e2 > e1 /\ e3 > e2
           /\ LitAt(s, w1, LitError)
           /\ LitAt(s, w2, LitAddressSanitizer)
        THEN HeadlineCaptures(HeadlineReason(s, w3), start, p, e3)
        ELSE NoMatch

\* the match of the whole pattern that starts at offset i, if there is one:
\* ([=]+[\r\n]+)? present, then absent
HeadlineAt(s, i) ==
    LET sepEq  == RunEnd(s, i, EqChars)
        sepEnd == RunEnd(s, sepEq, NewlineChars)
    IN  FirstMatched(IF sepEq > i /\ sepEnd > sepEq
                     THEN HeadlineFromPid(s, i, sepEnd)
                     ELSE NoMatch,
                     HeadlineFromPid(s, i, i))

\* R_ASAN_HEADLINE.captures_iter(input).last(): the matches are found left
\* to right, each search resuming where the previous match ended
RECURSIVE LastHeadlineFrom(_, _, _)
RECURSIVE LastHeadlineAfter(_, _, _)
LastHeadlineFrom(s, from, best) ==
    LastHeadlineAfter(s, best,
                      FirstOf({i \in from..(Len(s) - 1) : HeadlineAt(s, i).matched}))

\* the search once the next match is known to start at offset i (-1: none)
LastHeadlineAfter(s, best, i) ==
    IF i < 0 THEN best
    ELSE LastHeadlineFrom(s, HeadlineAt(s, i).end, HeadlineAt(s, i))

\* a variant that keeps the first match instead of the last
FirstHeadlineOnly(s) ==
    LET starts == {i \in 0..(Len(s) - 1) : HeadlineAt(s, i).matched}
    IN  IF starts = {} THEN NoMatch
        ELSE HeadlineAt(s, CHOOSE i \in starts : \A j \in starts : i <= j)

LastHeadline(s) == LastHeadlineFrom(s, 0, NoMatch)

(***************************************************************************)
(* str::lines over &input[pid_start..], as the skipping step uses it.      *)
(* A line ends at "\n"; the "\n" and a "\r" right before it are not part   *)
(* of the line; a final line needs no "\n".  The standard library changed  *)
(* what it does with a "\r" that ends the text with no "\n" after it:      *)
(* older releases strip it from the last line, newer ones keep it.  The    *)
(* parameter stripCr says which library the program was built with.        *)
(***************************************************************************)
\* the offset where the content of the line starting at offset from ends
LineContentEnd(s, from, stripCr) ==
    LET lf == FindIn(s, from, Len(s), <<LF>>)
    IN  IF lf >= 0
        THEN IF lf > from /\ s[lf] = CR THEN lf - 1 ELSE lf
        ELSE IF stripCr /\ Len(s) > from /\ s[Len(s)] = CR THEN Len(s) - 1 ELSE Len(s)

\* the offset where the line after the one starting at offset from starts
\* (the end of the text when it is the last line)
NextLineStart(s, from) ==
    LET lf == FindIn(s, from, Len(s), <<LF>>)
    IN  IF lf >= 0 THEN lf + 1 ELSE Len(s)

\* .lines().take_while(|x| x.find(marker).is_some()).map(|x| x.len()+1).sum()
\* over the lines from offset from on
RECURSIVE SkipMarkerLines(_, _, _, _)
SkipMarkerLines(s, from, marker, stripCr) ==
    IF from >= Len(s) THEN 0
    ELSE LET contentEnd == LineContentEnd(s, from, stripCr)
         IN  IF FindIn(s, from, contentEnd, marker) >= 0
             THEN (contentEnd - from) + 1
                  + SkipMarkerLines(s, NextLineStart(s, from), marker, stripCr)
             ELSE 0

\* line 42: next_pos
NextPos(s, h, stripCr) ==
    SkipMarkerLines(s, h.pid_start, SubSeq(s, h.pid_start + 1, h.pid_end), stripCr)
    + h.pid_start

\* a variant that ends the body before the terminating marker, not after it
EndPosBeforeMarker(s, marker, next_pos) ==
    LET m == FindIn(s, next_pos, Len(s), marker)
        u == FindIn(s, next_pos, Len(s), LitSummary)
        l == FindIn(s, u, Len(s), <<LF>>)
    IN  IF m >= 0 THEN m
        ELSE IF u >= 0 THEN u + (IF l >= 0 THEN l - u ELSE 0)
        ELSE next_pos

\* lines 48-57: end_pos, for a next_pos inside the text
EndPos(s, marker, next_pos) ==
    LET m == FindIn(s, next_pos, Len(s), marker)
        u == FindIn(s, next_pos, Len(s), LitSummary)
        l == FindIn(s, u, Len(s), <<LF>>)
    IN  IF m >= 0 THEN m + Len(marker)
        ELSE IF u >= 0 THEN u + (IF l >= 0 THEN l - u ELSE 0)
        ELSE next_pos

(***************************************************************************)
(* R_ASAN_FIRST_FRAME and the conversion of its hex digits.                *)
(***************************************************************************)
\* #0\s+(?P<frame>0x[a-fA-F0-9]+) matched at offset i of s: the offsets of
\* the hex digits, or NoMatch
FrameAt(s, i) ==
    LET w == RunEnd(s, i + Len(LitFrame0), SpaceChars)
        d == w + Len(LitHexPrefix)
        e == RunEnd(s, d, HexChars)
    IN  IF /\ LitAt(s, i, LitFrame0)
           /\ w > i + Len(LitFrame0)
           /\ LitAt(s, w, LitHexPrefix)
           /\ e > d
        THEN [matched |-> TRUE, digits_start |-> d, digits_end |-> e]
        ELSE NoMatch

\* the match of the frame pattern at offset i (-1: none)
FrameMatch(s, i) == IF i < 0 THEN NoMatch ELSE FrameAt(s, i)

\* R_ASAN_FIRST_FRAME.captures(s): the leftmost match
\* a variant that takes the last frame marker instead of the first
FirstFrameLast(s) ==
    LET starts == {i \in 0..(Len(s) - 1) : FrameAt(s, i).matched}
    IN  IF starts = {} THEN NoMatch
        ELSE FrameAt(s, CHOOSE i \in starts : \A j \in starts : i >= j)

FirstFrame(s) ==
    FrameMatch(s, FirstOf({i \in 0..(Len(s) - 1) : FrameAt(s, i).matched}))

\* the value of one hex digit
HexDigit(c) ==
    CASE c = "0" -> 0 [] c = "1" -> 1 [] c = "2" -> 2 [] c = "3" -> 3
      [] c = "4" -> 4 [] c = "5" -> 5 [] c = "6" -> 6 [] c = "7" -> 7
      [] c = "8" -> 8 [] c = "9" -> 9
      [] c \in {"a", "A"} -> 10 [] c \in {"b", "B"} -> 11
      [] c \in {"c", "C"} -> 12 [] c \in {"d", "D"} -> 13
      [] c \in {"e", "E"} -> 14 [] c \in {"f", "F"} -> 15

\* a sequence of digit values without its leading zeros
RECURSIVE StripZeros(_)
StripZeros(ds) ==
    IF ds # <<>> /\ Head(ds) = 0 THEN StripZeros(Tail(ds)) ELSE ds

\* a u64 holds 16 hex digits
U64HexDigits == 16

\* u64::from_str_radix(digits, 16).  A u64 is written here as its
\* base-16 digits, most significant first, without leading zeros
\* (0 is the empty sequence); the conversion fails when the value needs more
\* than 16 digits, that is when it does not fit 64 bits.
FromStrRadix16(digits) ==
    LET v == StripZeros([k \in 1..Len(digits) |-> HexDigit(digits[k])])
    IN  IF Len(v) > U64HexDigits THEN [ok |-> FALSE] ELSE [ok |-> TRUE, value |-> v]

\* the u64 zero
Zero64 == <<>>

\* str::trim_end
RECURSIVE TrimEnd(_)
TrimEnd(s) ==
    IF s # <<>> /\ s[Len(s)] \in SpaceChars THEN TrimEnd(SubSeq(s, 1, Len(s) - 1)) ELSE s

(***************************************************************************)
(* asan_post_process.  The outcome is None, Some(AsanInfo) or a panic (a   *)
(* slice offset outside the text, an unwrap of a failed conversion).  off  *)
(* records the offsets the function computed on the way.                   *)
(***************************************************************************)
None == [kind |-> "None"]

Panic(why) == [kind |-> "panic", why |-> why]

NoOffsets == [asan_start_pos |-> -1, pid_start |-> -1, pid_end |-> -1, next_pos |-> -1, end_pos |-> -1]

\* a variant without the SEGV case
OperationKeptForSegv(s, h, stop_reason) ==
    IF h.has_op THEN SubSeq(s, h.op_start + 1, h.op_end) ELSE <<>>

\* lines 72-81: operation
Operation(s, h, stop_reason) ==
    IF h.has_op
    THEN IF stop_reason = LitSegv THEN <<>> ELSE SubSeq(s, h.op_start + 1, h.op_end)
    ELSE <<>>

\* a variant that starts the body at the marker, not at the match
AsanStartPosAtPid(h) == h.pid_start

\* lines 38-39: asan_start_pos
AsanStartPos(h) == h.start

\* lines 59-88, once next_pos is known to lie inside the text
AsanBodyAndFields(s, h, next_pos) ==
    LET marker      == SubSeq(s, h.pid_start + 1, h.pid_end)
        end_pos     == EndPos(s, marker, next_pos)
        start       == AsanStartPos(h)
        asan_body   == SubSeq(s, start + 1, end_pos)
        stop_reason == SubSeq(s, h.reason_start + 1, h.reason_end)
        frame       == FirstFrame(asan_body)
        parsed      == IF frame.matched
                       THEN FromStrRadix16(SubSeq(asan_body, frame.digits_start + 1, frame.digits_end))
                       ELSE [ok |-> TRUE, value |-> Zero64]
        off         == [asan_start_pos |-> start, pid_start |-> h.pid_start,
                        pid_end |-> h.pid_end, next_pos |-> next_pos, end_pos |-> end_pos]
    IN  IF ~parsed.ok
        THEN [res |-> Panic("from_str_radix"), off |-> off]
        ELSE [res |-> [kind |-> "Some",
                       stop_reason |-> stop_reason,
                       operation |-> Operation(s, h, stop_reason),
                       first_frame |-> parsed.value,
                       body |-> TrimEnd(asan_body)],
              off |-> off]

\* lines 48-88: &input[next_pos..] panics for a next_pos past the end
AsanFromNextPos(s, h, next_pos) ==
    IF next_pos > Len(s)
    THEN [res |-> Panic("slice"),
          off |-> [asan_start_pos |-> AsanStartPos(h), pid_start |-> h.pid_start,
                   pid_end |-> h.pid_end, next_pos |-> next_pos, end_pos |-> -1]]
    ELSE AsanBodyAndFields(s, h, next_pos)

\* lines 34-88, for the outcome h of the headline search
AsanFromHeadline(s, h, stripCr) ==
    IF ~h.matched THEN [res |-> None, off |-> NoOffsets]
    ELSE AsanFromNextPos(s, h, NextPos(s, h, stripCr))

asan_post_process(s, stripCr) == AsanFromHeadline(s, LastHeadline(s), stripCr)

(***************************************************************************)
(* The inputs.  A text is written line by line in one line-ending          *)
(* convention; its last line may lack the line ending.  The lines are the  *)
(* ones a sanitizer report is made of.                                     *)
(***************************************************************************)
Conventions == {"LF", "CRLF", "CR"}

LineEnding(c) ==
    CASE c = "LF" -> <<LF>> [] c = "CRLF" -> <<CR, LF>> [] c = "CR" -> <<CR>>

\* "=1=ERROR:AddressSanitizer:SEGV"
HeadlineSegv == <<"=", "1", "=", "E", "R", "R", "O", "R", ":", "A", "d", "d", "r", "e", "s", "s", "S", "a", "n", "i", "t", "i", "z", "e", "r", ":", "S", "E", "G", "V">>

\* a separator line, then "=1= ERROR: AddressSanitizer: attempting CODE x"
HeadlineCode(c) == <<"=", "=">> \o LineEnding(c) \o <<"=", "1", "=", " ", "E", "R", "R", "O", "R", ":", " ", "A", "d", "d", "r", "e", "s", "s", "S", "a", "n", "i", "t", "i", "z", "e", "r", ":", " ", "a", "t", "t", "e", "m", "p", "t", "i", "n", "g", " ", "C", "O", "D", "E", " ", "x">>

\* "=1=AB": a line that repeats the marker
MarkerLine == <<"=", "1", "=", "A", "B">>

\* "SUMMARY: s"
SummaryLine == <<"S", "U", "M", "M", "A", "R", "Y", ":", " ", "s">>

\* "RD #0 0x1f": an operation token and a frame
FrameLine == <<"R", "D", " ", "#", "0", " ", "0", "x", "1", "f">>

\* "#0 0x0": a frame at address 0
FrameZeroLine == <<"#", "0", " ", "0", "x", "0">>

\* "#0 0x10000000000000000": a frame address of 17 hex digits
FrameWideLine == <<"#", "0", " ", "0", "x", "1", "0", "0", "0", "0", "0", "0", "0", "0", "0", "0", "0", "0", "0", "0", "0", "0">>

\* the lines of the reports: two headlines, a terminator, a summary, a frame
ReportKinds == {"segv", "code", "marker", "summary", "frame"}

\* the lines of the frame cases: a headline, a terminator, three frames
FrameKinds == {"segv", "marker", "frame", "frame0", "frame17"}

LineText(k, c) ==
    CASE k = "segv"    -> HeadlineSegv
      [] k = "code"    -> HeadlineCode(c)
      [] k = "marker"  -> MarkerLine
      [] k = "summary" -> SummaryLine
      [] k = "frame"   -> FrameLine
      [] k = "frame0"  -> FrameZeroLine
      [] k = "frame17" -> FrameWideLine

(***************************************************************************)
(* The state machine: the caller collects the child's output, then calls   *)
(* asan_post_process on it once.                                           *)
(***************************************************************************)
Init ==
    /\ input = <<>>
    /\ nl \in Conventions
    /\ nlines = 0
    /\ pc = "collect"
    /\ result = None
    /\ pos = NoOffsets
    /\ lines_impl = "any"

\* one more line of output, with its line ending
AppendLine(k) ==
    /\ pc = "collect"
    /\ nlines < MaxLines
    /\ input' = input \o LineText(k, nl) \o LineEnding(nl)
    /\ nlines' = nlines + 1
    /\ UNCHANGED <<nl, pc, result, pos, lines_impl>>

\* a last line cut before its line ending
AppendLastLine(k) ==
    /\ pc = "collect"
    /\ nlines < MaxLines
    /\ input' = input \o LineText(k, nl)
    /\ nlines' = nlines + 1
    /\ pc' = "collected"
    /\ UNCHANGED <<nl, result, pos, lines_impl>>

\* the standard libraries the program may be built with differ only on a
\* text that ends in a bare "\r"
LinesVariants(s) ==
    IF s # <<>> /\ s[Len(s)] = CR THEN BOOLEAN ELSE {FALSE}

\* which standard library the outcome is that of
LinesImpl(s, stripCr) ==
    IF LinesVariants(s) = {FALSE} THEN "any"
    ELSE IF stripCr THEN "strips a final CR" ELSE "keeps a final CR"

\* the call ends with outcome r
Returns(r) ==
    /\ result' = r.res
    /\ pos' = r.off

\* the call of asan_post_process(input)
Process ==
    /\ pc \in {"collect", "collected"}
    /\ \E stripCr \in LinesVariants(input) :
          /\ Returns(asan_post_process(input, stripCr))
          /\ lines_impl' = LinesImpl(input, stripCr)
    /\ pc' = "done"
    /\ UNCHANGED <<input, nl, nlines>>

Next ==
    \/ \E k \in ReportKinds : AppendLine(k)
    \/ \E k \in ReportKinds : AppendLastLine(k)
    \/ Process

Spec == Init /\ [][Next]_vars

\* the same machine on texts with "\n" line endings only
InitLf == Init /\ nl = "LF"

SpecLf == InitLf /\ [][Next]_vars

\* the same machine on texts with "\r\n" line endings only
InitCrlf == Init /\ nl = "CRLF"

SpecCrlf == InitCrlf /\ [][Next]_vars

\* the same machine over the lines of the frame cases
NextFrames ==
    \/ \E k \in FrameKinds : AppendLine(k)
    \/ \E k \in FrameKinds : AppendLastLine(k)
    \/ Process

SpecFrames == Init /\ [][NextFrames]_vars

(***************************************************************************)
(* What the properties are stated with.                                    *)
(***************************************************************************)
Done == pc = "done"

Returned == Done /\ result.kind = "Some"

\* the marker token of the selected headline
Marker == SubSeq(input, pos.pid_start + 1, pos.pid_end)

\* the match that starts where the body starts
Selected == HeadlineAt(input, pos.asan_start_pos)

\* &input[asan_start_pos..end_pos], the body before it is trimmed
BodySpan == SubSeq(input, pos.asan_start_pos + 1, pos.end_pos)

\* the body is the text that starts at the selected headline's start
BodyStartsAtHeadline ==
    result.body = SubSeq(input, pos.asan_start_pos + 1, pos.asan_start_pos + Len(result.body))

\* the body ends right after the marker occurrence at offset t
BodyEndsAfterMarkerAt(t) ==
    /\ BodyStartsAtHeadline
    /\ pos.asan_start_pos + Len(result.body) = t + Len(Marker)
    /\ LitAt(input, t, Marker)

\* the pattern matches somewhere in s
HasHeadline(s) == \E i \in 0..(Len(s) - 1) : HeadlineAt(s, i).matched

\* s holds two headlines, one after the end of the other
SeveralHeadlines(s) ==
    \E i \in 0..(Len(s) - 1) :
        LET m == HeadlineAt(s, i)
        IN  m.matched /\ \E j \in m.end..(Len(s) - 1) : HeadlineAt(s, j).matched

\* no headline starts after the selected one
NoLaterHeadline ==
    \A i \in Selected.end..(Len(input) - 1) : ~HeadlineAt(input, i).matched

\* the first occurrence of the marker at or after next_pos, or -1
MarkerAfterSkip == FindIn(input, pos.next_pos, Len(input), Marker)

\* the first occurrence of the marker on a line after the headline's line,
\* or -1
MarkerOnLaterLine ==
    FindIn(input, RunEndNot(input, Selected.reason_end, NewlineChars), Len(input), Marker)

\* the first occurrence of "SUMMARY: " at or after next_pos, or -1
SummaryAfterSkip == FindIn(input, pos.next_pos, Len(input), LitSummary)

\* the offset of the "\n" that ends the line holding offset i, or the end of
\* the text
LineEndOf(i) ==
    LET lf == FindIn(input, i, Len(input), <<LF>>)
    IN  IF lf >= 0 THEN lf ELSE Len(input)

(***************************************************************************)
(* C1.  With several headlines in the input, the result comes from the     *)
(* last one: stop_reason is its reason token, the body starts at its       *)
(* start, and the body ends at that report's terminating marker, with      *)
(* nothing after it.                                                       *)
(***************************************************************************)
\* C1 as stated: the terminator is the first marker occurrence on a line
\* after the last headline's line
C1_LastHeadlineToTerminator ==
    (Returned /\ SeveralHeadlines(input)) =>
        /\ Selected.matched
        /\ NoLaterHeadline
        /\ result.stop_reason = SubSeq(input, Selected.reason_start + 1, Selected.reason_end)
        /\ BodyStartsAtHeadline
        /\ MarkerOnLaterLine >= 0 => BodyEndsAfterMarkerAt(MarkerOnLaterLine)

\* C1 amended: with several headlines, the result comes from the last one
\* (its reason, its start), and when the marker occurs at or after next_pos,
\* the offset where the skipping of marker lines stopped, the body ends right
\* after the first such occurrence
C1_LastHeadlineToMarkerAfterSkip ==
    (Returned /\ SeveralHeadlines(input)) =>
        /\ Selected.matched
        /\ NoLaterHeadline
        /\ result.stop_reason = SubSeq(input, Selected.reason_start + 1, Selected.reason_end)
        /\ BodyStartsAtHeadline
        /\ MarkerAfterSkip >= 0 => BodyEndsAfterMarkerAt(MarkerAfterSkip)

\* two headlines with different reasons, the last one selected, its
\* terminator found after the skipped lines and followed by more text
C1_Witness ==
    /\ Returned
    /\ \E i \in 0..(pos.asan_start_pos - 1) :
          LET m == HeadlineAt(input, i)
          IN  /\ m.matched
              /\ m.end <= pos.asan_start_pos
              /\ SubSeq(input, m.reason_start + 1, m.reason_end) # result.stop_reason
    /\ MarkerAfterSkip >= 0
    /\ MarkerAfterSkip + Len(Marker) < Len(input)

(***************************************************************************)
(* C2.  The result is None exactly when the input holds no headline, and   *)
(* Some(AsanInfo) for every input that holds one.                          *)
(***************************************************************************)
C2_NoneIffNoHeadline ==
    Done =>
        /\ (result.kind = "None") <=> ~HasHeadline(input)
        /\ HasHeadline(input) => result.kind = "Some"

(***************************************************************************)
(* C3.  asan_post_process never panics: every call ends with None or       *)
(* Some(AsanInfo).                                                         *)
(***************************************************************************)
C3_NeverPanics == Done => result.kind \in {"None", "Some"}

(***************************************************************************)
(* C4.  With exactly one headline, followed later by a line that repeats   *)
(* its marker, the body ends exactly at that marker: its last characters   *)
(* are the marker occurrence on that line.                                 *)
(***************************************************************************)
ExactlyOneHeadline == HasHeadline(input) /\ ~SeveralHeadlines(input)

\* C4 as stated: the terminating line is any later line with the marker
C4_BodyEndsAtTerminator ==
    (Returned /\ ExactlyOneHeadline /\ MarkerOnLaterLine >= 0) =>
        BodyEndsAfterMarkerAt(MarkerOnLaterLine)

\* C4 amended: with exactly one headline and a marker occurrence at or
\* after next_pos, the body ends right after the first such occurrence; a
\* marker line that directly continues the headline's run of marker lines
\* is skipped and does not end the body
C4_BodyEndsAtMarkerAfterSkip ==
    (Returned /\ ExactlyOneHeadline /\ MarkerAfterSkip >= 0) =>
        BodyEndsAfterMarkerAt(MarkerAfterSkip)

\* one headline, a line without the marker, the terminating line, and text
\* after the terminating marker
C4_Witness ==
    /\ Returned
    /\ ExactlyOneHeadline
    /\ MarkerAfterSkip > pos.next_pos
    /\ MarkerAfterSkip + Len(Marker) < Len(input)

(***************************************************************************)
(* C5.  With no marker after the skipped lines but a "SUMMARY: " in the    *)
(* remaining text, the body ends at the end of the summary's line, whether *)
(* or not a newline ends that line.                                        *)
(***************************************************************************)
C5_BodyEndsAtSummaryLineEnd ==
    (Returned /\ MarkerAfterSkip < 0 /\ SummaryAfterSkip >= 0) =>
        result.body = TrimEnd(SubSeq(input, pos.asan_start_pos + 1, LineEndOf(SummaryAfterSkip)))

(***************************************************************************)
(* C6.  With neither a further marker nor a "SUMMARY: " after the selected *)
(* headline, the body is all the remaining text, right-trimmed.            *)
(***************************************************************************)
C6_BodyConsumesRest ==
    (/\ Returned
     /\ FindIn(input, pos.pid_end, Len(input), Marker) < 0
     /\ FindIn(input, pos.pid_end, Len(input), LitSummary) < 0) =>
        result.body = TrimEnd(SubSeq(input, pos.asan_start_pos + 1, Len(input)))

(***************************************************************************)
(* C7.  operation is empty whenever stop_reason is "SEGV"; for any other   *)
(* stop_reason it is the operation token captured after the headline's     *)
(* line, empty when there is none.                                         *)
(***************************************************************************)
C7_OperationEmptyForSegv ==
    Returned =>
        /\ result.stop_reason = LitSegv => result.operation = <<>>
        /\ result.stop_reason # LitSegv =>
              result.operation = (IF Selected.has_op
                                  THEN SubSeq(input, Selected.op_start + 1, Selected.op_end)
                                  ELSE <<>>)

\* both cases: a SEGV headline whose next line starts with a token, and
\* (in another state) another reason with its token kept
C7_Witness ==
    /\ Returned
    /\ result.stop_reason = LitSegv
    /\ Selected.has_op
    /\ result.operation = <<>>

(***************************************************************************)
(* C8.  first_frame is 0 exactly when the body span holds no frame marker  *)
(* "#0 <whitespace> 0x<hex digits>"; with a marker it is the value of the  *)
(* first marker's hex digits, and not 0.                                   *)
(***************************************************************************)
\* the offsets of the body span where a frame marker matches
FramesInBody == {i \in 0..(Len(BodySpan) - 1) : FrameAt(BodySpan, i).matched}

\* the value of the hex digits of the first frame marker of the body span
FirstFrameInBody ==
    LET i == CHOOSE x \in FramesInBody : \A y \in FramesInBody : x <= y
        m == FrameAt(BodySpan, i)
    IN  StripZeros([k \in 1..(m.digits_end - m.digits_start) |->
                       HexDigit(BodySpan[m.digits_start + k])])

\* C8 as stated
C8_FirstFrameZeroIffNoFrame ==
    Returned =>
        /\ (result.first_frame = Zero64) <=> (FramesInBody = {})
        /\ FramesInBody # {} =>
              (result.first_frame = FirstFrameInBody /\ result.first_frame # Zero64)

\* C8 amended: first_frame is 0 when the body span holds no frame marker;
\* with a marker it is the value of the first marker's hex digits, which is
\* 0 when they are all zeros
C8_FirstFrameIsFirstMarker ==
    Returned =>
        /\ FramesInBody = {} => result.first_frame = Zero64
        /\ FramesInBody # {} => result.first_frame = FirstFrameInBody

\* a body whose first frame marker is "#0 0x0"
C8_Witness ==
    /\ Returned
    /\ FramesInBody # {}
    /\ result.first_frame = Zero64

(***************************************************************************)
(* C9.  The body is non-empty, starts at the offset where the selected     *)
(* headline match starts (a leading separator line included), is a         *)
(* contiguous part of the input and has no trailing whitespace; the        *)
(* offsets satisfy start <= marker start < next_pos <= end_pos <= length.  *)
(***************************************************************************)
C9_BodySpan ==
    Returned =>
        /\ result.body # <<>>
        /\ pos.asan_start_pos = LastHeadline(input).start
        /\ BodyStartsAtHeadline
        /\ result.body[Len(result.body)] \notin SpaceChars
        /\ pos.asan_start_pos + Len(result.body) <= pos.end_pos
        /\ \A k \in (pos.asan_start_pos + Len(result.body) + 1)..pos.end_pos :
              input[k] \in SpaceChars
        /\ 0 <= pos.asan_start_pos
        /\ pos.asan_start_pos <= pos.pid_start
        /\ pos.pid_start < pos.next_pos
        /\ pos.next_pos <= pos.end_pos
        /\ pos.end_pos <= Len(input)

\* a headline with a separator line before its marker, and a body whose
\* span ended in whitespace
C9_Witness ==
    /\ Returned
    /\ pos.asan_start_pos < pos.pid_start
    /\ pos.asan_start_pos + Len(result.body) < pos.end_pos

(***************************************************************************)
(* C10.  next_pos is the offset of the start of the first line, from the   *)
(* marker's line on, that does not hold the marker (the end of the input   *)
(* when every remaining line holds it), for LF, CRLF and bare CR line      *)
(* endings alike.                                                          *)
(***************************************************************************)
\* the start of the line after the one whose content ends at offset e
AfterLineEnding(s, e) ==
    IF e >= Len(s) THEN Len(s)
    ELSE IF s[e + 1] = CR /\ e + 1 < Len(s) /\ s[e + 2] = LF THEN e + 2
    ELSE e + 1

\* the start of the first line from offset from on that does not hold the
\* marker, a line ending at "\r\n", "\n" or "\r"
RECURSIVE FirstLineWithoutMarker(_, _, _)
FirstLineWithoutMarker(s, from, marker) ==
    IF from >= Len(s) THEN Len(s)
    ELSE LET e == RunEndNot(s, from, NewlineChars)
         IN  IF FindIn(s, from, e, marker) >= 0
             THEN FirstLineWithoutMarker(s, AfterLineEnding(s, e), marker)
             ELSE from

C10_NextPosOnLineBoundary ==
    (Done /\ result.kind # "None") =>
        pos.next_pos = FirstLineWithoutMarker(input, pos.pid_start, Marker)

====
